---- MODULE Spec2Model ----
(***************************************************************************)
(* Model of the firmware-info derivation performed by                      *)
(* CrosConfigJson.__init__ (libcros_config_host_json.py).                  *)
(*                                                                         *)
(* Encoding of Python values:                                              *)
(*   - a dict is a function whose DOMAIN is its set of keys;               *)
(*   - a JSON string is a TLA+ string; JSON true/false are the strings     *)
(*     "True"/"False" (their Python rendering); None is the string "None"; *)
(*   - an OrderedDict is a sequence of [key, val] records in insertion     *)
(*     order; a set is a set.                                              *)
(***************************************************************************)
EXTENDS Integers, Sequences, FiniteSets, TLC

\* Bound on the number of entries of chromeos.configs.
MaxDevices == 3

None == "None"
EmptyDict == [k \in {} |-> ""]

\* Python truthiness of a scalar of the encoding above.
Truthy(v) == v \notin {None, "False", ""}

(***************************************************************************)
(* Input documents.                                                        *)
(***************************************************************************)
\* (name, /identity) of a device: two devices of one name with different
\* identities, and two devices of one identity with different names.
IdNone == EmptyDict
Id1 == "identity" :> ("sku-id" :> "1")
NameIds == {<<"a", Id1>>, <<"a", IdNone>>, <<"b", Id1>>}

FwNone == EmptyDict
FwNo == "firmware" :> ("no-firmware" :> "True")
Fw1 == "firmware" :> (("main-image" :> "m1") @@ ("ec-image" :> "e1") @@
                      ("build-targets" :> (("coreboot" :> "cb") @@ ("ec" :> "ecb"))))
Fw2 == "firmware" :> (("name" :> "shared") @@ ("main-image" :> "m2") @@
                      ("no-firmware" :> "False"))

SgNone == EmptyDict
Sg1 == "firmware-signing" :> (("key-id" :> "K1") @@ ("signature-id" :> "a"))
Sg2 == "firmware-signing" :> (("key-id" :> "K2") @@ ("signature-id" :> "s2") @@
                              ("sig-id-in-customization-id" :> "True"))
Sg3 == "firmware-signing" :> (("key-id" :> "K3") @@ ("signature-id" :> "a") @@
                              ("sig-id-in-customization-id" :> "True"))

\* (/firmware, /firmware-signing) of a device
FwSgs == {<<FwNone, Sg1>>, <<FwNo, Sg2>>,
          <<Fw1, SgNone>>, <<Fw1, Sg3>>,
          <<Fw2, Sg1>>, <<Fw2, Sg2>>}

Devices ==
  {("name" :> ni[1]) @@ ni[2] @@ fs[1] @@ fs[2] : ni \in NameIds, fs \in FwSgs}

(***************************************************************************)
(* DeviceConfigJson                                                        *)
(***************************************************************************)
GetName(config) == config["name"]

RECURSIVE Walk(_, _)
Walk(result, tokens) ==
  IF tokens = <<>> THEN result
  ELSE IF Head(tokens) \in DOMAIN result
       THEN Walk(result[Head(tokens)], Tail(tokens))
       ELSE EmptyDict

\* path is the sequence of tokens of the slash-separated path; '/' is <<>>.
GetProperties(config, path) == IF path # <<>> THEN Walk(config, path) ELSE config

GetValue(source, name) == IF name \in DOMAIN source THEN source[name] ELSE None

\* GetFirmwareConfig without the no-firmware test of line 72
GetFirmwareConfig_IgnoreFlag(config) == GetProperties(config, <<"firmware">>)

GetFirmwareConfig(config) ==
  LET firmware == GetProperties(config, <<"firmware">>)
  IN IF DOMAIN firmware = {} \/ Truthy(GetValue(firmware, "no-firmware"))
     THEN EmptyDict
     ELSE firmware

\* str() of a dict: a rendering of its items; a nested dict is rendered
\* recursively (only build-targets nests in the documents above).
Str(d) ==
  {<<k, IF k = "build-targets" THEN {<<k2, d[k][k2]>> : k2 \in DOMAIN d[k]}
                               ELSE {d[k]}>> : k \in DOMAIN d}

Identity(config) == Str(GetProperties(config, <<"identity">>))

\* v or default
OrElse(v, default) == IF Truthy(v) THEN v ELSE default

(***************************************************************************)
(* OrderedDict                                                             *)
(***************************************************************************)
Keys(od) == {od[p].key : p \in DOMAIN od}
HasKey(od, k) == k \in Keys(od)
Lookup(od, k) == od[CHOOSE p \in DOMAIN od : od[p].key = k].val
Values(od) == {od[p].val : p \in DOMAIN od}

\* od[k] = v on a list of pairs: an existing key is not replaced
DictSet_Append(od, k, v) == Append(od, [key |-> k, val |-> v])

\* od[k] = v
DictSet(od, k, v) ==
  IF HasKey(od, k)
  THEN [p \in DOMAIN od |-> IF od[p].key = k THEN [key |-> k, val |-> v] ELSE od[p]]
  ELSE Append(od, [key |-> k, val |-> v])

(***************************************************************************)
(* CrosConfigJson.__init__                                                 *)
(***************************************************************************)
VARIABLES
  configs,        \* self._configs
  firmware_info,  \* firmware_info of each element of self._configs
  fw_by_model,    \* dict: str(fw) -> shared model
  processed,      \* set of identity strings
  i,              \* position of the outer loop (line 132)
  j,              \* position of the whitelabel loop (line 182), 0 outside it
  base,           \* info built at line 175 for each config resolved so far
  run,            \* number of the resolver pass
  first_info      \* firmware_info as left by the first pass

vars == <<configs, firmware_info, fw_by_model, processed, i, j, base, run, first_info>>

N == Len(configs)

Init ==
  /\ configs \in UNION {[1..n -> Devices] : n \in 1..MaxDevices}
  /\ firmware_info = [d \in DOMAIN configs |-> <<>>]
  /\ fw_by_model = EmptyDict
  /\ processed = {}
  /\ i = 1
  /\ j = 0
  /\ base = <<>>
  /\ run = 1
  /\ first_info = <<>>

\* sig_id without the branch of line 169
SigId_NoSentinel(config) ==
  GetValue(GetProperties(config, <<"firmware-signing">>), "signature-id")

\* sig_id chosen at lines 169-172
SigId(config) ==
  LET fw_signer_config == GetProperties(config, <<"firmware-signing">>)
  IN IF Truthy(GetValue(fw_signer_config, "sig-id-in-customization-id"))
     THEN "sig-id-in-customization-id"
     ELSE GetValue(fw_signer_config, "signature-id")

\* lines 138-142 without the test of line 138: a later device relabels
Register_Overwrite(config, fw) ==
  [k \in DOMAIN fw_by_model \cup {Str(fw)} |->
     IF k = Str(fw)
     THEN (IF "name" \in DOMAIN fw THEN fw["name"] ELSE GetName(config))
     ELSE fw_by_model[k]]

\* line 142 without the explicit firmware name
Register_DeviceName(config, fw) ==
  IF Str(fw) \notin DOMAIN fw_by_model
  THEN fw_by_model @@ (Str(fw) :> GetName(config))
  ELSE fw_by_model

\* fw_by_model after lines 138-142
Register(config, fw) ==
  IF Str(fw) \notin DOMAIN fw_by_model
  THEN fw_by_model @@
       (Str(fw) :> (IF "name" \in DOMAIN fw THEN fw["name"] ELSE GetName(config)))
  ELSE fw_by_model

\* the FirmwareInfo built at lines 144-178
BaseInfo(config, fw, shared_model) ==
  LET build_config == GetProperties(config, <<"firmware", "build-targets">>)
      fw_signer_config == GetProperties(config, <<"firmware-signing">>)
  IN [model |-> GetName(config),
      shared_model |-> shared_model,
      key_id |-> GetValue(fw_signer_config, "key-id"),
      have_image |-> TRUE,
      bios_build_target |-> IF DOMAIN build_config # {}
                            THEN GetValue(build_config, "coreboot") ELSE None,
      ec_build_target |-> IF DOMAIN build_config # {}
                          THEN GetValue(build_config, "ec") ELSE None,
      main_image_uri |-> OrElse(GetValue(fw, "main-image"), ""),
      main_rw_image_uri |-> OrElse(GetValue(fw, "main-rw-image"), ""),
      ec_image_uri |-> OrElse(GetValue(fw, "ec-image"), ""),
      pd_image_uri |-> OrElse(GetValue(fw, "pd-image"), ""),
      extra |-> OrElse(GetValue(fw, "extra"), <<>>),
      create_bios_rw_image |-> FALSE,
      tools |-> OrElse(GetValue(fw, "tools"), <<>>),
      sig_id |-> SigId(config)]

SigInCustomizationId(config) ==
  Truthy(GetValue(GetProperties(config, <<"firmware-signing">>),
                  "sig-id-in-customization-id"))

\* line 135 without the processed test
ShouldResolve_NoProcessed(config) == DOMAIN GetFirmwareConfig(config) # {}

\* line 135 with the processed test taken on the whole set
ShouldResolve_AnyProcessed(config) ==
  /\ DOMAIN GetFirmwareConfig(config) # {}
  /\ processed = {}

\* the guard of line 135
ShouldResolve(config) ==
  /\ DOMAIN GetFirmwareConfig(config) # {}
  /\ Identity(config) \notin processed

\* lines 133-179 for a config that passes the guard of line 135
Resolve ==
  /\ j = 0
  /\ i <= N
  /\ ShouldResolve(configs[i])
  /\ LET config == configs[i]
         fw == GetFirmwareConfig(config)
         by_model == Register(config, fw)
         info == BaseInfo(config, fw, by_model[Str(fw)])
     IN /\ fw_by_model' = by_model
        /\ processed' = IF SigInCustomizationId(config)
                        THEN processed
                        ELSE processed \cup {Identity(config)}
        /\ base' = base @@ (i :> info)
        /\ firmware_info' =
             [firmware_info EXCEPT ![i] = DictSet(@, GetName(config), info)]
        /\ IF SigInCustomizationId(config)
           THEN i' = i /\ j' = 1
           ELSE i' = i + 1 /\ j' = 0
  /\ UNCHANGED <<configs, run, first_info>>

\* lines 133-135 for a config that fails the guard
Skip ==
  /\ j = 0
  /\ i <= N
  /\ ~ShouldResolve(configs[i])
  /\ i' = i + 1
  /\ UNCHANGED <<configs, firmware_info, fw_by_model, processed, j, base, run, first_info>>

\* line 188 reading the device name for the signature-id
WlSigId_Name(wl_config) == GetName(wl_config)

\* wl_sig_id of lines 186-188
WlSigId(wl_config) ==
  GetValue(GetProperties(wl_config, <<"firmware-signing">>), "signature-id")

\* lines 189-194 without the key_id replacement
WlInfo_BaseKey(info, wl_config) ==
  [info EXCEPT !.model = WlSigId(wl_config),
               !.have_image = FALSE,
               !.sig_id = WlSigId(wl_config)]

\* the copy stored at lines 189-194
WlInfo(info, wl_config) ==
  LET fw_signer_config == GetProperties(wl_config, <<"firmware-signing">>)
      wl_key_id == GetValue(fw_signer_config, "key-id")
  IN [info EXCEPT !.model = WlSigId(wl_config),
                  !.key_id = wl_key_id,
                  !.have_image = FALSE,
                  !.sig_id = WlSigId(wl_config)]

\* line 183 also excluding the device being resolved
WlMatch_NotSelf(wl_config, name) ==
  GetName(wl_config) = name /\ wl_config # configs[i]

WlMatch(wl_config, name) == GetName(wl_config) = name

\* one iteration of the loop of lines 182-194
Rescan ==
  /\ j >= 1
  /\ LET wl_config == configs[j]
         name == GetName(configs[i])
         wl_info == WlInfo(base[i], wl_config)
     IN IF WlMatch(wl_config, name)
        THEN /\ processed' = processed \cup {Identity(wl_config)}
             /\ firmware_info' =
                  [firmware_info EXCEPT ![j] = DictSet(@, WlSigId(wl_config), wl_info)]
        ELSE UNCHANGED <<processed, firmware_info>>
  /\ IF j < N THEN j' = j + 1 /\ i' = i
              ELSE j' = 0 /\ i' = i + 1
  /\ UNCHANGED <<configs, fw_by_model, base, run, first_info>>

Done == i = N + 1 /\ j = 0

Next == Resolve \/ Skip \/ Rescan

Spec == Init /\ [][Next]_vars

\* A second resolver pass over the same configs: fresh fw_by_model and
\* processed (lines 130-131), firmware_info kept.
Rerun ==
  /\ Done
  /\ run = 1
  /\ run' = 2
  /\ first_info' = firmware_info
  /\ fw_by_model' = EmptyDict
  /\ processed' = {}
  /\ base' = <<>>
  /\ i' = 1
  /\ j' = 0
  /\ UNCHANGED <<configs, firmware_info>>

NextTwice == Next \/ Rerun

SpecTwice == Init /\ [][NextTwice]_vars

(***************************************************************************)
(* Properties                                                              *)
(***************************************************************************)
Devs == DOMAIN configs
Fw(d) == GetFirmwareConfig(configs[d])
HasFw(d) == DOMAIN Fw(d) # {}
Name(d) == GetName(configs[d])
Signer(d) == GetProperties(configs[d], <<"firmware-signing">>)
OwnSigId(d) == GetValue(Signer(d), "signature-id")
OwnKeyId(d) == GetValue(Signer(d), "key-id")
Whitelabel(d) == Truthy(GetValue(Signer(d), "sig-id-in-customization-id"))
Resolved == DOMAIN base
NoFirmwareFlag(d) ==
  Truthy(GetValue(GetProperties(configs[d], <<"firmware">>), "no-firmware"))
UniqueIdentity(d) ==
  \A e \in Devs \ {d} : Identity(configs[e]) # Identity(configs[d])
\* the label line 142 takes from device d
Label(d) == IF "name" \in DOMAIN Fw(d) THEN Fw(d)["name"] ELSE Name(d)
\* the first resolved device with the descriptor of d
FirstWith(d) ==
  CHOOSE e \in Resolved :
    /\ Str(Fw(e)) = Str(Fw(d))
    /\ \A x \in Resolved : Str(Fw(x)) = Str(Fw(d)) => e <= x

\* C1 as stated: when construction is complete, every device with a non-empty
\* GetFirmwareConfig() has at least one firmware_info entry, also when its
\* identity equals that of a device resolved earlier.
C1_EveryFirmwareDeviceHasInfo ==
  Done => \A d \in Devs : HasFw(d) => firmware_info[d] # <<>>

\* C1 amended: when construction is complete, every device with a non-empty
\* GetFirmwareConfig() whose identity rendering is shared by no other device
\* of the list has at least one firmware_info entry.
C1_UniqueIdentityDeviceHasInfo ==
  Done => \A d \in Devs : HasFw(d) /\ UniqueIdentity(d) => firmware_info[d] # <<>>

C1_Witness ==
  /\ Done
  /\ N >= 2
  /\ \E d \in Devs : /\ HasFw(d) /\ UniqueIdentity(d) /\ d \notin Resolved
                     /\ firmware_info[d] # <<>>

\* C2 as stated: after the pass, all entries of devices with identical
\* firmware descriptor strings carry the same shared_model, entries written
\* by the whitelabel rescan included.
C2_SameDescriptorSameSharedModel ==
  Done => \A d1, d2 \in Devs :
            Str(Fw(d1)) = Str(Fw(d2)) =>
              \A x \in Values(firmware_info[d1]), y \in Values(firmware_info[d2]) :
                x.shared_model = y.shared_model

\* C2 amended: for devices with identical firmware descriptor strings, all
\* base entries (have_image true) carry the same shared_model, the label
\* registered for that descriptor.
C2_SameDescriptorSameBaseSharedModel ==
  \A d1, d2 \in Devs :
    \A x \in Values(firmware_info[d1]), y \in Values(firmware_info[d2]) :
      x.have_image /\ y.have_image /\ Str(Fw(d1)) = Str(Fw(d2)) =>
        /\ x.shared_model = y.shared_model
        /\ x.shared_model = fw_by_model[Str(Fw(d1))]

C2_Witness ==
  /\ Done
  /\ \E d1, d2 \in Devs :
       /\ d1 # d2 /\ Name(d1) # Name(d2) /\ Str(Fw(d1)) = Str(Fw(d2))
       /\ "name" \notin DOMAIN Fw(d1)
       /\ \E x \in Values(firmware_info[d1]) : x.have_image
       /\ \E y \in Values(firmware_info[d2]) : y.have_image

\* C3 as stated: a device with a truthy no-firmware flag has an empty
\* GetFirmwareConfig() and its firmware_info stays empty, whoever writes.
C3_NoFirmwareDeviceHasNoInfo ==
  \A d \in Devs :
    NoFirmwareFlag(d) => DOMAIN Fw(d) = {} /\ firmware_info[d] = <<>>

\* C3 amended: a device with a truthy no-firmware flag has an empty
\* GetFirmwareConfig(), is never resolved and never holds a base entry; its
\* firmware_info holds only derived copies (have_image false), and holds
\* one only if a device of the same name was resolved with a truthy
\* sig-id-in-customization-id flag.
C3_NoFirmwareDeviceHasNoBaseInfo ==
  \A d \in Devs :
    NoFirmwareFlag(d) =>
      /\ DOMAIN Fw(d) = {}
      /\ d \notin Resolved
      /\ \A x \in Values(firmware_info[d]) : ~x.have_image
      /\ firmware_info[d] # <<>> =>
           \E a \in Resolved : Whitelabel(a) /\ Name(a) = Name(d)

C3_Witness ==
  /\ Done
  /\ \E d \in Devs, a \in Resolved :
       /\ NoFirmwareFlag(d) /\ firmware_info[d] = <<>>
       /\ Whitelabel(a) /\ Name(a) # Name(d)

\* C4: at the end of a pass in which device a was resolved with a truthy
\* sig-id-in-customization-id flag, every device named like a holds, under
\* its own signature-id, an entry with its own key-id and signature-id,
\* have_image false and the main and ec image uris of a's base info;
\* siblings with distinct signature-ids hold distinct entries.
C4_WhitelabelSiblingsGetOwnCopy ==
  Done =>
    \A a \in Resolved :
      Whitelabel(a) =>
        /\ \A d \in Devs :
             Name(d) = Name(a) =>
               /\ HasKey(firmware_info[d], OwnSigId(d))
               /\ LET e == Lookup(firmware_info[d], OwnSigId(d))
                  IN /\ e.key_id = OwnKeyId(d)
                     /\ e.sig_id = OwnSigId(d)
                     /\ e.have_image = FALSE
                     /\ e.main_image_uri = base[a].main_image_uri
                     /\ e.ec_image_uri = base[a].ec_image_uri
        /\ \A d1, d2 \in Devs :
             Name(d1) = Name(a) /\ Name(d2) = Name(a) /\ OwnSigId(d1) # OwnSigId(d2) =>
               Lookup(firmware_info[d1], OwnSigId(d1)) #
                 Lookup(firmware_info[d2], OwnSigId(d2))

C4_Witness ==
  /\ Done
  /\ \E a \in Resolved, b, c \in Devs :
       /\ Whitelabel(a) /\ Name(b) = Name(a) /\ Name(c) = Name(a)
       /\ OwnSigId(a) # OwnSigId(b) /\ OwnSigId(a) # OwnSigId(c)
       /\ OwnSigId(b) # OwnSigId(c)
       /\ OwnKeyId(a) # OwnKeyId(b)
       /\ HasKey(firmware_info[b], OwnSigId(b))

\* C5: the resolution body runs for a device only while its identity is not
\* in processed, no two devices of one identity string are both resolved, and
\* once a device's identity is processed every entry newly stored in its
\* firmware_info is a derived copy (have_image false) written by the rescan
\* of a same-named device resolved with the flag.
C5_ResolvedAtMostOnce ==
  /\ [](\A d1, d2 \in Resolved :
          d1 # d2 => Identity(configs[d1]) # Identity(configs[d2]))
  /\ [][/\ \A d \in Devs :
             d \notin Resolved /\ d \in DOMAIN base' =>
               Identity(configs[d]) \notin processed
        /\ \A d \in Devs :
             Identity(configs[d]) \in processed /\ firmware_info'[d] # firmware_info[d] =>
               /\ j >= 1 /\ d = j /\ Whitelabel(i) /\ Name(d) = Name(i)
               /\ \A x \in Values(firmware_info'[d]) \ Values(firmware_info[d]) :
                    ~x.have_image]_vars

C5_Witness ==
  /\ Done
  /\ \E d1 \in Resolved, d2 \in Devs \ Resolved :
       /\ Identity(configs[d1]) = Identity(configs[d2])
       /\ HasFw(d2) /\ d1 < d2
       /\ Len(firmware_info[d2]) >= 1

\* C6: a second pass with fresh fw_by_model and processed, run on top of the
\* firmware_info left by the first, ends with every firmware_info as the
\* first pass left it.
C6_SecondPassIdempotent ==
  run = 2 /\ Done => firmware_info = first_info

C6_Witness ==
  /\ run = 2
  /\ Done
  /\ \E d \in Devs : Len(firmware_info[d]) >= 2
  /\ \E d \in Resolved : Whitelabel(d) /\ OwnSigId(d) = Name(d)

\* C7: the label of a descriptor is the firmware name, else the device name,
\* of the first device resolved with it; a registered label never changes,
\* and the base entry of every device resolved with the descriptor carries it.
C7_LabelFixedByFirstDevice ==
  /\ [](\A d \in Resolved :
          /\ fw_by_model[Str(Fw(d))] = Label(FirstWith(d))
          /\ base[d].shared_model = Label(FirstWith(d)))
  /\ [][/\ \A k \in DOMAIN fw_by_model :
             k \in DOMAIN fw_by_model' /\ fw_by_model'[k] = fw_by_model[k]
        /\ \A d \in Devs :
             d \notin Resolved /\ d \in DOMAIN base' =>
               Lookup(firmware_info'[d], Name(d)).shared_model =
                 (IF Str(Fw(d)) \in DOMAIN fw_by_model
                  THEN fw_by_model[Str(Fw(d))] ELSE Label(d))]_vars

C7_Witness ==
  /\ Done
  /\ \E d1, d2 \in Resolved :
       /\ d1 < d2 /\ Str(Fw(d1)) = Str(Fw(d2)) /\ Name(d1) # Name(d2)
       /\ "name" \notin DOMAIN Fw(d1)
       /\ base[d2].shared_model = Name(d1)
       /\ Lookup(firmware_info[d2], Name(d2)).shared_model = Name(d1)

\* C8: the step that resolves a device stores its base info under its own
\* name with model = name, have_image true, create_bios_rw_image false; with
\* a falsy flag sig_id is the signature-id and the step adds the identity to
\* processed; with a truthy flag sig_id is the literal and the identity is
\* not in processed when the step ends.
C8_BaseEntryShape ==
  [][\A d \in Devs :
       d \notin Resolved /\ d \in DOMAIN base' =>
         /\ HasKey(firmware_info'[d], Name(d))
         /\ LET e == Lookup(firmware_info'[d], Name(d))
            IN /\ e = base'[d]
               /\ e.model = Name(d)
               /\ e.have_image = TRUE
               /\ e.create_bios_rw_image = FALSE
               /\ IF Whitelabel(d)
                  THEN /\ e.sig_id = "sig-id-in-customization-id"
                       /\ Identity(configs[d]) \notin processed'
                  ELSE /\ e.sig_id = OwnSigId(d)
                       /\ Identity(configs[d]) \notin processed
                       /\ Identity(configs[d]) \in processed']_vars

C8_Witness ==
  /\ j = 1
  /\ i \in Resolved
  /\ Whitelabel(i)
  /\ Identity(configs[i]) \notin processed
  /\ HasKey(firmware_info[i], Name(i))
  /\ \E d \in Resolved : ~Whitelabel(d) /\ Identity(configs[d]) \in processed

\* C9 as stated: once a device is resolved, the entry under its own name has
\* have_image true and model = name, whatever the names and signature-ids.
C9_BaseEntryNeverReplaced ==
  \A d \in Resolved :
    LET e == Lookup(firmware_info[d], Name(d))
    IN e.have_image /\ e.model = Name(d)

\* C9 amended: once a device is resolved, the entry under its own name is
\* its base info (have_image true, model = name) unless its own signature-id
\* equals its name and a same-named device resolved with the flag has
\* rescanned it; then that entry is the derived copy (have_image false).
C9_BaseEntryReplacedOnlyByOwnSigId ==
  \A d \in Resolved :
    LET e == Lookup(firmware_info[d], Name(d))
    IN \/ e = base[d] /\ e.have_image /\ e.model = Name(d)
       \/ /\ OwnSigId(d) = Name(d)
          /\ ~e.have_image
          /\ \E a \in Resolved :
               Whitelabel(a) /\ Name(a) = Name(d) /\ e = WlInfo(base[a], configs[d])

C9_Witness ==
  /\ Done
  /\ \E d, a \in Resolved :
       /\ d # a /\ Whitelabel(a) /\ Name(a) = Name(d)
       /\ OwnSigId(d) # Name(d)
       /\ Len(firmware_info[d]) = 2
       /\ Lookup(firmware_info[d], Name(d)).have_image

\* C10: processed only grows; outside the rescan every resolved device's
\* identity is in processed; when the pass ends the identity of every device
\* with a non-empty GetFirmwareConfig() is in processed.
C10_ProcessedGrowsAndCovers ==
  /\ [][processed \subseteq processed']_vars
  /\ [](j = 0 => \A d \in Resolved : Identity(configs[d]) \in processed)
  /\ [](Done => \A d \in Devs : HasFw(d) => Identity(configs[d]) \in processed)

C10_Witness ==
  /\ Done
  /\ N >= 2
  /\ \E d \in Resolved :
       /\ Whitelabel(d) /\ Identity(configs[d]) \in processed
       /\ \A e \in Devs \ {d} : Name(e) # Name(d)

====
